---- MODULE Spec2Model ----
(***************************************************************************)
(* Model of the data-transform pipeline (custom_transforms.py, data.py)    *)
(* and of the adversarial-example code (adversarial_examples.py).          *)
(*                                                                         *)
(* Four specifications share the module, one per component:                *)
(*   SpecTransform  AddInfoDict followed by CornerPixelToWhite             *)
(*   SpecConfig     get_transforms                                         *)
(*   SpecDataset    AdversarialExampleDataset                              *)
(*   SpecAttack     fgsm and attack                                        *)
(* Each specification leaves the variables of the other components at the  *)
(* idle value they get in its Init.                                        *)
(***************************************************************************)
EXTENDS Integers, Sequences, FiniteSets, TLC

VARIABLES
    \* ---- transforms ----
    tpc,        \* position: "new", "assert_failed", "raw", "info", "done"
    transform,  \* the CornerPixelToWhite object's fields
    heap,       \* PIL images by reference: putpixel mutates, copy allocates
    sample,     \* the tuple handed from transform to transform
    draw,       \* the value torch.rand(1) took in __call__, in 1/RandRes
    wrote,      \* history: the coordinates putpixel was called on
    ctorArgs,   \* history: the arguments __init__ was called with
    img0,       \* history: the image as it was before any transform
    target0,    \* history: the label as it was before any transform
    \* ---- get_transforms ----
    gpc,        \* position: "called", "returned", "raised"
    config,     \* the caller's config mapping
    config0,    \* history: the caller's config at the call
    transforms, \* the list returned
    \* ---- AdversarialExampleDataset ----
    dpc,        \* position: "new", "ready", "ValueError", "CalledProcessError"
    on_disk,    \* what base_run/adv_examples holds once it exists
    ds_file,    \* whether base_run/adv_examples exists
    examples,   \* self.examples
    ds_num_examples,  \* self.num_examples
    result,     \* the outcome of the last __len__ or __getitem__
    \* ---- attack ----
    apc,        \* position in attack()
    exists,     \* the files of base_run among adv_examples, .json, .pdf
    exists0,    \* history: those files at entry
    written,    \* history: the files this run of attack() wrote
    cfg,        \* cfg.eps, cfg.batch_size, cfg.max_examples
    params,     \* the weight of the loaded model
    data_size,  \* the size of the test set
    remaining,  \* the examples the dataloader has not handed out yet
    model_loaded,
    batches,    \* history: the (inputs, labels) of every batch processed
    adv_examples,
    fgsm_out,   \* the adv_inputs fgsm returned for the last batch, before the clip
    i,
    num_examples,
    mean_original_loss,
    mean_new_loss,
    mean_new_accuracy,
    saved,      \* the array in base_run/adv_examples, when this run wrote it
    json        \* the object in base_run/adv_examples.json, when this run wrote it

transformVars == <<tpc, transform, heap, sample, draw, wrote, ctorArgs, img0, target0>>
configVars == <<gpc, config, config0, transforms>>
datasetVars == <<dpc, on_disk, ds_file, examples, ds_num_examples, result>>
attackVars == <<apc, exists, exists0, written, cfg, params, data_size, remaining,
                model_loaded, batches, adv_examples, fgsm_out, i, num_examples,
                mean_original_loss, mean_new_loss, mean_new_accuracy, saved, json>>
vars == <<transformVars, configVars, datasetVars, attackVars>>

\* ------------------------------------------------------------------------
\* Python dicts: functions whose domain is the key set.
DictSet(d, k, v) == [x \in (DOMAIN d) \cup {k} |-> IF x = k THEN v ELSE d[x]]
DictDel(d, k) == [x \in (DOMAIN d) \ {k} |-> d[x]]
EmptyDict == [x \in {} |-> 0]

\* ========================================================================
\*                       custom_transforms.py
\* ========================================================================

\* Largest image width and height explored.
MaxW == 2
MaxH == 2
\* Resolution of the uniform draw: torch.rand(1) is k/RandRes, 0 <= k < RandRes.
RandRes == 4

PixelVals == {0, 255}
Labels == {0, 1}
Corners == {"top-left", "top-right", "bottom-left", "bottom-right"}
CornerArgs == Corners \cup {"center"}
\* p_backdoor in units of 1/RandRes, with one value on each side of [0, 1].
ProbArgs == (0 - 1)..(RandRes + 1)

Coords(w, h) == (0..(w - 1)) \X (0..(h - 1))
Images == UNION {[size : {<<w, h>>}, px : [Coords(w, h) -> PixelVals]] :
                    w \in 1..MaxW, h \in 1..MaxH}

\* The image reference the dataset hands out, and the one img.copy() returns.
DatasetRef == 1
CopyRef == 2

TransformIdle ==
    /\ tpc = "idle"
    /\ transform = EmptyDict
    /\ heap = EmptyDict
    /\ sample = <<>>
    /\ draw = 0
    /\ wrote = {}
    /\ ctorArgs = EmptyDict
    /\ img0 = EmptyDict
    /\ target0 = 0

InitTransform ==
    /\ tpc = "new"
    /\ transform = EmptyDict
    /\ \E im \in Images :
        /\ heap = (DatasetRef :> im)
        /\ img0 = im
    /\ \E t \in Labels :
        /\ sample = <<DatasetRef, t>>
        /\ target0 = t
    /\ draw = 0
    /\ wrote = {}
    /\ ctorArgs = EmptyDict

\* CornerPixelToWhite.__init__: the two assertions, then the four fields.
Construct(p, corner, target_class, return_original) ==
    /\ tpc = "new"
    /\ ctorArgs' = [p_backdoor |-> p, corner |-> corner]
    /\ IF 0 <= p /\ p <= RandRes /\ corner \in Corners
       THEN /\ tpc' = "raw"
            /\ transform' = [p_backdoor |-> p, corner |-> corner,
                             target_class |-> target_class,
                             return_original |-> return_original]
       ELSE /\ tpc' = "assert_failed"
            /\ UNCHANGED transform
    /\ UNCHANGED <<heap, sample, draw, wrote, img0, target0>>

\* AddInfoDict.__call__
AddInfoDict ==
    /\ tpc = "raw"
    /\ tpc' = "info"
    /\ sample' = <<sample[1], sample[2], [original_target |-> sample[2]]>>
    /\ UNCHANGED <<transform, heap, draw, wrote, ctorArgs, img0, target0>>

\* A variant of CornerXY with the coordinates of top-right and bottom-left
\* exchanged.
CornerXYSwapped(corner, width, height) ==
    CASE corner = "top-left" -> <<0, 0>>
      [] corner = "top-right" -> <<0, height - 1>>
      [] corner = "bottom-left" -> <<width - 1, 0>>
      [] corner = "bottom-right" -> <<width - 1, height - 1>>

\* The coordinate putpixel is called on for each corner name.
CornerXY(corner, width, height) ==
    CASE corner = "top-left" -> <<0, 0>>
      [] corner = "top-right" -> <<width - 1, 0>>
      [] corner = "bottom-left" -> <<0, height - 1>>
      [] corner = "bottom-right" -> <<width - 1, height - 1>>

\* img.putpixel(xy, v): mutates the image object in place.
PutPixel(h, ref, xy, v) ==
    [h EXCEPT ![ref] = [@ EXCEPT !.px = [@ EXCEPT ![xy] = v]]]

\* The guard of "No backdoor, don't do anything": torch.rand(1) > p_backdoor.
SkipBackdoor(r, p) == r > p

\* A variant of StoreOriginal that stores the image object itself.
StoreOriginalAlias(h, ref) == [heap |-> h, ref |-> ref]

\* info["original_img"] = img.copy(), in the backdoored branch.
StoreOriginal(h, ref) == [heap |-> h @@ (CopyRef :> h[ref]), ref |-> CopyRef]

\* CornerPixelToWhite.__call__
CornerPixelToWhite(r) ==
    /\ tpc = "info"
    /\ tpc' = "done"
    /\ draw' = r
    /\ LET img == sample[1]
           target == sample[2]
           info == sample[3]
       IN IF SkipBackdoor(r, transform.p_backdoor)
          THEN LET info1 == DictSet(info, "backdoored", FALSE)
                   info2 == IF transform.return_original
                            THEN DictSet(info1, "original_img", img)
                            ELSE info1
               IN /\ sample' = <<img, target, info2>>
                  /\ UNCHANGED <<heap, wrote>>
          ELSE LET info1 == DictSet(info, "backdoored", TRUE)
                   st == IF transform.return_original
                         THEN StoreOriginal(heap, img)
                         ELSE [heap |-> heap, ref |-> img]
                   info2 == IF transform.return_original
                            THEN DictSet(info1, "original_img", st.ref)
                            ELSE info1
                   size == st.heap[img].size
                   xy == CornerXY(transform.corner, size[1], size[2])
               IN /\ heap' = PutPixel(st.heap, img, xy, 255)
                  /\ wrote' = wrote \cup {xy}
                  /\ sample' = <<img, transform.target_class, info2>>
    /\ UNCHANGED <<transform, ctorArgs, img0, target0>>

\* ========================================================================
\*                       data.py: get_transforms
\* ========================================================================

\* Python values an "enabled" entry may hold, by their literal.
PyVals == {"True", "False", "0", "1", "None"}
\* Python truthiness of those values.
Truthy(v) == v \notin {"False", "0", "None"}

TransformNames == {"pixel_backdoor", "noise", "noise_backdoor"}
ConfigNames == TransformNames \cup {"unrelated"}
\* One config entry: an optional "enabled" key and an optional constructor argument.
ConfigEntries ==
    {e \in UNION {[K -> PyVals \cup {"x"}] : K \in SUBSET {"enabled", "arg"}} :
        /\ "enabled" \in DOMAIN e => e["enabled"] \in PyVals
        /\ "arg" \in DOMAIN e => e["arg"] = "x"}
Configs == UNION {[N -> ConfigEntries] : N \in SUBSET ConfigNames}

PIL_TRANSFORMS == <<<<"pixel_backdoor", "CornerPixelToWhite">> >>
NP_TRANSFORMS == <<<<"noise", "GaussianNoise">>, <<"noise_backdoor", "NoiseBackdoor">> >>

\* A transform object: its class and the keyword arguments it was built with.
Obj(cls, kwargs) == [cls |-> cls, kwargs |-> kwargs]

ConfigIdle ==
    /\ gpc = "idle"
    /\ config = EmptyDict
    /\ config0 = EmptyDict
    /\ transforms = <<>>

InitConfig ==
    /\ gpc = "called"
    /\ config \in Configs
    /\ config0 = config
    /\ transforms = <<>>

\* A variant of ProcessTransform that deletes "enabled" from the caller's entry
\* instead of from a copy of it.
ProcessTransformNoCopy(st, name, cls) ==
    IF name \in DOMAIN st.config
    THEN LET entry == st.config[name]
         IN IF "enabled" \in DOMAIN entry
            THEN IF ~Truthy(entry["enabled"])
                 THEN st
                 ELSE [transforms |-> Append(st.transforms,
                                             Obj(cls, DictDel(entry, "enabled"))),
                       config |-> [st.config EXCEPT ![name] = DictDel(entry, "enabled")]]
            ELSE [st EXCEPT !.transforms = Append(@, Obj(cls, entry))]
    ELSE st

\* process_transform(name, transform), on the pair (transforms, config) it
\* closes over.
ProcessTransform(st, name, cls) ==
    IF name \in DOMAIN st.config
    THEN LET transform_config == st.config[name]   \* dict(config[name]): a copy
         IN IF "enabled" \in DOMAIN transform_config
            THEN IF ~Truthy(transform_config["enabled"])
                 THEN st
                 ELSE [st EXCEPT !.transforms =
                          Append(@, Obj(cls, DictDel(transform_config, "enabled")))]
            ELSE [st EXCEPT !.transforms = Append(@, Obj(cls, transform_config))]
    ELSE st

\* for name, transform in <list>: process_transform(name, transform)
RECURSIVE ProcessAll(_, _)
ProcessAll(st, list) ==
    IF list = <<>> THEN st
    ELSE ProcessAll(ProcessTransform(st, list[1][1], list[1][2]), Tail(list))

\* get_transforms(config).  A constructor that does not accept the keyword
\* arguments of its entry raises, and get_transforms returns no list then.
GetTransforms(ctor_raises) ==
    /\ gpc = "called"
    /\ LET st0 == [transforms |-> <<Obj("AddInfoDict", EmptyDict)>>, config |-> config]
           st1 == ProcessAll(st0, PIL_TRANSFORMS)
           st2 == [st1 EXCEPT !.transforms = Append(@, Obj("to_numpy", EmptyDict))]
           st3 == ProcessAll(st2, NP_TRANSFORMS)
       IN /\ config' = st3.config
          /\ IF ctor_raises /\ Len(st3.transforms) > 2
             THEN gpc' = "raised" /\ transforms' = <<>>
             ELSE gpc' = "returned" /\ transforms' = st3.transforms
    /\ UNCHANGED config0

\* ========================================================================
\*            adversarial_examples.py: AdversarialExampleDataset
\* ========================================================================

\* Largest number of stored adversarial examples explored.
MaxStored == 3
\* __getitem__ is called with idx in -MaxIdx..MaxIdx.
MaxIdx == 5

\* The num_examples argument: <<>> for None (the default), <<n>> for the number n.
None == <<>>

\* The stored example at (0-based) position j is written j, so that the value a
\* call returns tells which position of the file it came from.
StoredExamples(m) == [j \in 1..m |-> j - 1]

DatasetIdle ==
    /\ dpc = "idle"
    /\ on_disk = <<>>
    /\ ds_file = FALSE
    /\ examples = <<>>
    /\ ds_num_examples = 0
    /\ result = EmptyDict

InitDataset ==
    /\ dpc = "new"
    /\ \E m \in 0..MaxStored : on_disk = StoredExamples(m)
    /\ ds_file \in BOOLEAN
    /\ examples = <<>>
    /\ ds_num_examples = 0
    /\ result = EmptyDict

\* AdversarialExampleDataset.__init__(base_run, num_examples).  When the file is
\* missing the attack runs as a subprocess (check=True): it either fails, or it
\* leaves the file behind, which is then loaded.
DatasetInit(num_examples_arg, attack_ok) ==
    /\ dpc = "new"
    /\ result' = EmptyDict
    /\ UNCHANGED on_disk
    /\ IF ~ds_file /\ ~attack_ok
       THEN /\ dpc' = "CalledProcessError"
            /\ UNCHANGED <<ds_file, examples, ds_num_examples>>
       ELSE /\ ds_file' = TRUE
            /\ examples' = on_disk
            /\ LET n == IF num_examples_arg = None THEN Len(on_disk)
                        ELSE num_examples_arg[1]
               IN /\ ds_num_examples' = n
                  /\ dpc' = IF Len(on_disk) < n THEN "ValueError" ELSE "ready"

\* AdversarialExampleDataset.__len__
DatasetLen ==
    /\ dpc = "ready"
    /\ result' = [op |-> "len", outcome |-> "returned", value |-> ds_num_examples]
    /\ UNCHANGED <<dpc, on_disk, ds_file, examples, ds_num_examples>>

\* self.examples[idx] on an array of m examples: Python's indexing.  A negative
\* idx counts from the end.  Out of range, NumPy raises IndexError and JAX either
\* raises or clamps the index into range, depending on its version.
ArrayIndex(arr, idx) ==
    LET m == Len(arr)
    IN IF 0 <= idx /\ idx < m
       THEN {[outcome |-> "returned", value |-> arr[idx + 1]]}
       ELSE IF 0 - m <= idx /\ idx < 0
       THEN {[outcome |-> "returned", value |-> arr[m + idx + 1]]}
       ELSE {[outcome |-> "IndexError", value |-> 0]}
            \cup (IF m = 0 THEN {}
                  ELSE {[outcome |-> "returned",
                         value |-> IF idx < 0 THEN arr[1] ELSE arr[m]]})

\* The guard of __getitem__ that raises IndexError.
OutOfRange(idx, n) == idx >= n

\* AdversarialExampleDataset.__getitem__(idx)
DatasetGetItem(idx) ==
    /\ dpc = "ready"
    /\ IF OutOfRange(idx, ds_num_examples)
       THEN result' = [op |-> "getitem", idx |-> idx, outcome |-> "IndexError",
                       value |-> 0]
       ELSE \E r \in ArrayIndex(examples, idx) :
               result' = [op |-> "getitem", idx |-> idx, outcome |-> r.outcome,
                          value |-> r.value]
    /\ UNCHANGED <<dpc, on_disk, ds_file, examples, ds_num_examples>>

\* ========================================================================
\*            adversarial_examples.py: fgsm and attack
\* ========================================================================

\* Pixel grid: the integer v stands for the pixel value v/Scale, so [0, 1] is
\* 0..Scale.  eps is in the same unit.
Scale == 2
\* Largest eps explored, in grid units.
MaxEps == 2
\* Largest test set and batch size explored with the full pixel grid.
MaxData == 3
MaxBatchSize == 2

\* "if mean_new_accuracy > 0.1": the threshold, as AccNum/AccDen.
AccNum == 1
AccDen == 10
\* "for i in range(9)": the number of examples plotted.
PlotCount == 9

AdvFile == "adv_examples"
JsonFile == "adv_examples.json"
PdfFile == "adv_examples.pdf"

\* ---- exact arithmetic on fractions <<numerator, denominator>> ----
Abs(n) == IF n < 0 THEN 0 - n ELSE n
RECURSIVE Gcd(_, _)
Gcd(a, b) == IF b = 0 THEN a ELSE Gcd(b, a % b)
Rat(n, d) == LET g == Gcd(Abs(n), d) IN <<n \div g, d \div g>>
RatAdd(a, b) == Rat(a[1] * b[2] + b[1] * a[2], a[2] * b[2])
RatMulInt(k, a) == Rat(k * a[1], a[2])
RatDivInt(a, k) == Rat(a[1], a[2] * k)
RatGt(a, b) == a[1] * b[2] > b[1] * a[2]
Zero == Rat(0, 1)

RECURSIVE SumSeq(_)
SumSeq(s) == IF s = <<>> THEN 0 ELSE s[1] + SumSeq(Tail(s))

\* ---- the model under attack ----
\* forward_fn: a two-class linear classifier on one-pixel images, with weight w
\* and its decision boundary at pixel value 1/2: logits <<0, w * (2x - Scale)>>.
Weights == {0 - 1, 0, 1}
Logits(w, x) == <<0, w * (2 * x - Scale)>>
\* jnp.argmax(logits, -1): the first index of the maximum (classes are 0 and 1).
ArgMax(l) == IF l[2] > l[1] THEN 1 ELSE 0
\* optax.softmax_cross_entropy against the one-hot label: log(1 + exp(-m)) for
\* the margin m of the true class over the other one.  On the grid it is
\* represented by LossTop - m, which like it is positive and strictly
\* decreasing in m.
LossTop == 2 * (Scale + 2 * MaxEps) + 1
CrossEntropy(l, y) == LossTop - (IF y = 1 THEN l[2] - l[1] ELSE l[1] - l[2])
\* jnp.mean(losses) over a batch
BatchLoss(w, xs, ys) ==
    Rat(SumSeq([j \in DOMAIN xs |-> CrossEntropy(Logits(w, xs[j]), ys[j])]), Len(xs))
\* jnp.mean(jnp.argmax(new_logits, -1) == labels)
BatchAccuracy(w, xs, ys) ==
    Rat(Cardinality({j \in DOMAIN xs : ArgMax(Logits(w, xs[j])) = ys[j]}), Len(xs))
\* The gradient of the batch's mean loss with respect to pixel j, times the
\* batch size: the loss of example j is the only term that depends on it.
Grad(w, x, y) == CrossEntropy(Logits(w, x + 1), y) - CrossEntropy(Logits(w, x), y)
\* jnp.sign
Sign(g) == IF g > 0 THEN 1 ELSE IF g < 0 THEN 0 - 1 ELSE 0

\* fgsm(forward_fn, inputs, labels, eps): (inputs + eps * sign(grad), loss)
Fgsm(w, inputs, labels, eps) ==
    [adv |-> [j \in DOMAIN inputs |->
                 inputs[j] + eps * Sign(Grad(w, inputs[j], labels[j]))],
     loss |-> BatchLoss(w, inputs, labels)]

\* A variant of Clip that leaves the value as it is.
NoClip(x, lo, hi) == x

\* jnp.clip(x, lo, hi)
Clip(x, lo, hi) == IF x < lo THEN lo ELSE IF x > hi THEN hi ELSE x

\* A variant of MeanUpdate that averages the old mean and the new value.
MeanUpdateHalf(k, mean, x) == RatDivInt(RatAdd(mean, x), 2)

\* mean = (k * mean + x) / (k + 1), for the zero-based batch index k
MeanUpdate(k, mean, x) == RatDivInt(RatAdd(RatMulInt(k, mean), x), k + 1)

\* A variant of AttackFailed that also fails at the threshold itself.
AttackFailedInclusive(acc) == ~RatGt(Rat(AccNum, AccDen), acc)

\* "if mean_new_accuracy > 0.1: raise RuntimeError"
AttackFailed(acc) == RatGt(acc, Rat(AccNum, AccDen))

\* jnp.concatenate(adv_examples, axis=0)
RECURSIVE Concatenate(_)
Concatenate(list) ==
    IF list = <<>> THEN <<>> ELSE list[1] \o Concatenate(Tail(list))

\* (size of the test set, batch size).  The test set of AccDen examples in one
\* batch is there to reach the accuracies k/AccDen.
Loaders == ((0..MaxData) \X (1..MaxBatchSize)) \cup {<<AccDen, AccDen>>}
\* cfg.max_examples: 0 stands for "no limit" (None or 0, both falsy).
MaxExamplesArgs == {0, 2}
\* The batches of n examples, each a pair (pixel, label), that the loader can
\* hand out after `start` examples of a test set of `size` examples.  A test
\* set of up to MaxData examples ranges over the pixel grid and both labels;
\* in the large one every pixel is white and every label but the first two is 0.
Batches(size, start, n) ==
    IF size <= MaxData
    THEN [1..n -> (0..Scale) \X Labels]
    ELSE {[j \in 1..n |-> <<Scale, IF start + j <= 2 THEN l[start + j] ELSE 0>>] :
             l \in [1..2 -> Labels]}
\* The states base_run is left in by earlier runs of attack.
BaseRunStates == {{}, {AdvFile}, {AdvFile, JsonFile}, {AdvFile, JsonFile, PdfFile}}

AttackIdle ==
    /\ apc = "idle"
    /\ exists = {}
    /\ exists0 = {}
    /\ written = {}
    /\ cfg = EmptyDict
    /\ params = 0
    /\ data_size = 0
    /\ remaining = 0
    /\ model_loaded = FALSE
    /\ batches = <<>>
    /\ adv_examples = <<>>
    /\ fgsm_out = <<>>
    /\ i = 0
    /\ num_examples = 0
    /\ mean_original_loss = Zero
    /\ mean_new_loss = Zero
    /\ mean_new_accuracy = Zero
    /\ saved = <<>>
    /\ json = EmptyDict

InitAttack ==
    /\ apc = "entry"
    /\ exists \in BaseRunStates
    /\ exists0 = exists
    /\ written = {}
    /\ \E l \in Loaders, e \in 0..MaxEps, mx \in MaxExamplesArgs :
        /\ cfg = [eps |-> e, batch_size |-> l[2], max_examples |-> mx]
        /\ data_size = l[1]
        /\ remaining = l[1]
    /\ params \in Weights
    /\ model_loaded = FALSE
    /\ batches = <<>>
    /\ adv_examples = <<>>
    /\ fgsm_out = <<>>
    /\ i = 0
    /\ num_examples = 0
    /\ mean_original_loss = Zero
    /\ mean_new_loss = Zero
    /\ mean_new_accuracy = Zero
    /\ saved = <<>>
    /\ json = EmptyDict

\* attack(), up to the loop: the early return when the examples exist, else
\* the model and the test set are loaded and the accumulators set to zero.
AttackEntry ==
    /\ apc = "entry"
    /\ IF AdvFile \in exists
       THEN /\ apc' = "skipped"
            /\ UNCHANGED model_loaded
       ELSE /\ model_loaded' = TRUE
            /\ apc' = IF remaining = 0 THEN "check" ELSE "loop"
    /\ UNCHANGED <<exists, exists0, written, cfg, params, data_size, remaining,
                   batches, adv_examples, fgsm_out, i, num_examples,
                   mean_original_loss, mean_new_loss, mean_new_accuracy,
                   saved, json>>

Min(a, b) == IF a < b THEN a ELSE b

\* One iteration of "for i, batch in enumerate(dataloader)": the loader hands
\* out the next batch_size examples of the test set, fewer when fewer are left.
AttackBatch(inputs, labels) ==
    /\ apc = "loop"
    /\ Len(inputs) = Min(cfg.batch_size, remaining)
    /\ LET out == Fgsm(params, inputs, labels, cfg.eps)
           adv_inputs == [j \in DOMAIN out.adv |-> Clip(out.adv[j], 0, Scale)]
           original_loss == out.loss
           new_accuracy == BatchAccuracy(params, adv_inputs, labels)
           new_loss == BatchLoss(params, adv_inputs, labels)
           n == num_examples + Len(adv_inputs)
       IN /\ fgsm_out' = out.adv
          /\ adv_examples' = Append(adv_examples, adv_inputs)
          /\ num_examples' = n
          /\ mean_original_loss' = MeanUpdate(i, mean_original_loss, original_loss)
          /\ mean_new_loss' = MeanUpdate(i, mean_new_loss, new_loss)
          /\ mean_new_accuracy' = MeanUpdate(i, mean_new_accuracy, new_accuracy)
          /\ remaining' = remaining - Len(inputs)
          /\ apc' = IF (cfg.max_examples # 0 /\ n >= cfg.max_examples)
                       \/ remaining - Len(inputs) = 0
                    THEN "check" ELSE "loop"
    /\ batches' = Append(batches, [inputs |-> inputs, labels |-> labels])
    /\ i' = i + 1
    /\ UNCHANGED <<exists, exists0, written, cfg, params, data_size, model_loaded,
                   saved, json>>

\* The accuracy check, the concatenation and utils.save.
AttackSave ==
    /\ apc = "check"
    /\ IF AttackFailed(mean_new_accuracy)
       THEN /\ apc' = "RuntimeError"
            /\ UNCHANGED <<exists, written, saved>>
       ELSE IF adv_examples = <<>>
       THEN /\ apc' = "ValueError"     \* jnp.concatenate of an empty list
            /\ UNCHANGED <<exists, written, saved>>
       ELSE /\ apc' = "saved"
            /\ saved' = Concatenate(adv_examples)
            /\ exists' = exists \cup {AdvFile}
            /\ written' = written \cup {AdvFile}
    /\ UNCHANGED <<exists0, cfg, params, data_size, remaining, model_loaded,
                   batches, adv_examples, fgsm_out, i, num_examples,
                   mean_original_loss, mean_new_loss, mean_new_accuracy, json>>

\* json.dump of the statistics into adv_examples.json
AttackDumpJson ==
    /\ apc = "saved"
    /\ apc' = "dumped"
    /\ json' = [original_loss |-> mean_original_loss, new_loss |-> mean_new_loss,
                new_accuracy |-> mean_new_accuracy, eps |-> cfg.eps,
                num_examples |-> num_examples]
    /\ exists' = exists \cup {JsonFile}
    /\ written' = written \cup {JsonFile}
    /\ UNCHANGED <<exists0, cfg, params, data_size, remaining, model_loaded,
                   batches, adv_examples, fgsm_out, i, num_examples,
                   mean_original_loss, mean_new_loss, mean_new_accuracy, saved>>

\* The 3x3 grid of adv_examples[0..8] and plt.savefig.  With fewer than nine
\* examples the index is out of range, which raises or not (see ArrayIndex).
AttackPlot ==
    /\ apc = "dumped"
    /\ \E r \in ArrayIndex(saved, PlotCount - 1) :
        IF r.outcome = "returned"
        THEN /\ apc' = "done"
             /\ exists' = exists \cup {PdfFile}
             /\ written' = written \cup {PdfFile}
        ELSE /\ apc' = "IndexError"
             /\ UNCHANGED <<exists, written>>
    /\ UNCHANGED <<exists0, cfg, params, data_size, remaining, model_loaded,
                   batches, adv_examples, fgsm_out, i, num_examples,
                   mean_original_loss, mean_new_loss, mean_new_accuracy,
                   saved, json>>

\* ========================================================================
\*                       The four specifications
\* ========================================================================

ConstructStep ==
    /\ \E p \in ProbArgs, c \in CornerArgs, t \in Labels, ro \in BOOLEAN :
            Construct(p, c, t, ro)
    /\ UNCHANGED <<configVars, datasetVars, attackVars>>

AddInfoDictStep ==
    /\ AddInfoDict
    /\ UNCHANGED <<configVars, datasetVars, attackVars>>

CornerPixelToWhiteStep ==
    /\ \E r \in 0..(RandRes - 1) : CornerPixelToWhite(r)
    /\ UNCHANGED <<configVars, datasetVars, attackVars>>

InitT == InitTransform /\ ConfigIdle /\ DatasetIdle /\ AttackIdle
NextTransform == ConstructStep \/ AddInfoDictStep \/ CornerPixelToWhiteStep
SpecTransform == InitT /\ [][NextTransform]_vars

GetTransformsStep ==
    /\ \E ctor_raises \in BOOLEAN : GetTransforms(ctor_raises)
    /\ UNCHANGED <<transformVars, datasetVars, attackVars>>

InitC == TransformIdle /\ InitConfig /\ DatasetIdle /\ AttackIdle
NextConfig == GetTransformsStep
SpecConfig == InitC /\ [][NextConfig]_vars

DatasetInitStep ==
    /\ \E n \in {None} \cup {<<k>> : k \in 0..(MaxStored + 1)}, ok \in BOOLEAN : DatasetInit(n, ok)
    /\ UNCHANGED <<transformVars, configVars, attackVars>>

DatasetLenStep ==
    /\ DatasetLen
    /\ UNCHANGED <<transformVars, configVars, attackVars>>

DatasetGetItemStep ==
    /\ \E idx \in (0 - MaxIdx)..MaxIdx : DatasetGetItem(idx)
    /\ UNCHANGED <<transformVars, configVars, attackVars>>

InitD == TransformIdle /\ ConfigIdle /\ InitDataset /\ AttackIdle
NextDataset == DatasetInitStep \/ DatasetLenStep \/ DatasetGetItemStep
SpecDataset == InitD /\ [][NextDataset]_vars

AttackEntryStep ==
    /\ AttackEntry
    /\ UNCHANGED <<transformVars, configVars, datasetVars>>

AttackBatchStep ==
    /\ apc = "loop"
    /\ \E b \in Batches(data_size, data_size - remaining,
                     Min(cfg.batch_size, remaining)) :
            AttackBatch([j \in DOMAIN b |-> b[j][1]], [j \in DOMAIN b |-> b[j][2]])
    /\ UNCHANGED <<transformVars, configVars, datasetVars>>

AttackSaveStep ==
    /\ AttackSave
    /\ UNCHANGED <<transformVars, configVars, datasetVars>>

AttackDumpJsonStep ==
    /\ AttackDumpJson
    /\ UNCHANGED <<transformVars, configVars, datasetVars>>

AttackPlotStep ==
    /\ AttackPlot
    /\ UNCHANGED <<transformVars, configVars, datasetVars>>

InitA == TransformIdle /\ ConfigIdle /\ DatasetIdle /\ InitAttack
NextAttack ==
    \/ AttackEntryStep
    \/ AttackBatchStep
    \/ AttackSaveStep
    \/ AttackDumpJsonStep
    \/ AttackPlotStep
SpecAttack == InitA /\ [][NextAttack]_vars

\* ========================================================================
\*                              The claims
\* ========================================================================

\* The corner coordinates as the documentation of CornerPixelToWhite names them.
NamedCorner(corner, width, height) ==
    [x |-> IF corner \in {"top-left", "bottom-left"} THEN 0 ELSE width - 1,
     y |-> IF corner \in {"top-left", "top-right"} THEN 0 ELSE height - 1]

\* C1: after CornerPixelToWhite.__call__, info["backdoored"] is True exactly
\* when putpixel was called; then it was called on the configured corner alone,
\* that pixel of the returned image is 255, every other pixel is as before and
\* the returned target is target_class.  When info["backdoored"] is False the
\* returned image is the input object with its pixels unchanged and the
\* returned target is the input target.
C1_BackdoorExactlyAtCorner ==
    tpc = "done" =>
        LET out == heap[sample[1]]
            info == sample[3]
            c == NamedCorner(transform.corner, img0.size[1], img0.size[2])
            cxy == <<c.x, c.y>>
        IN /\ info["backdoored"] <=> wrote # {}
           /\ info["backdoored"] =>
                /\ wrote = {cxy}
                /\ out.size = img0.size
                /\ out.px[cxy] = 255
                /\ \A q \in DOMAIN out.px : q # cxy => out.px[q] = img0.px[q]
                /\ sample[2] = transform.target_class
           /\ ~info["backdoored"] =>
                /\ sample[1] = DatasetRef
                /\ out = img0
                /\ sample[2] = target0

\* C1 witness: a 2x2 image whose black top-right pixel was turned white, with
\* the label replaced by another class.
C1_Witness ==
    /\ tpc = "done"
    /\ sample[3]["backdoored"]
    /\ transform.corner = "top-right"
    /\ img0.size = <<2, 2>>
    /\ img0.px[<<1, 0>>] = 0
    /\ heap[sample[1]].px[<<1, 0>>] = 255
    /\ sample[2] # target0

\* C2: a transform constructed with p_backdoor = 0 never applies the backdoor,
\* whatever torch.rand(1) returns, and one constructed with p_backdoor = 1
\* applies it on every call; construction with p_backdoor outside [0, 1] or
\* with a corner that is not one of the four names fails the assertion.
C2_ProbabilityGate ==
    /\ (tpc = "done" /\ transform.p_backdoor = 0) => ~sample[3]["backdoored"]
    /\ (tpc = "done" /\ transform.p_backdoor = RandRes) => sample[3]["backdoored"]
    /\ (tpc # "new" /\ ~(ctorArgs.p_backdoor \in 0..RandRes /\ ctorArgs.corner \in Corners))
          => tpc = "assert_failed"

\* C3: after AddInfoDict and CornerPixelToWhite(return_original=True),
\* info["original_target"] is the label the sample had before any transform and
\* info["original_img"] holds the pixels the image had before the call.
C3_OriginalRecorded ==
    (tpc = "done" /\ transform.return_original) =>
        LET info == sample[3]
        IN /\ info["original_target"] = target0
           /\ "original_img" \in DOMAIN info
           /\ info["original_img"] \in DOMAIN heap
           /\ heap[info["original_img"]] = img0

\* C3 witness: the backdoor changed both the label and a pixel, and the
\* original was asked for.
C3_Witness ==
    /\ tpc = "done"
    /\ transform.return_original
    /\ sample[3]["backdoored"]
    /\ sample[2] # target0
    /\ heap[sample[1]] # img0

\* A transform is selected when its name is a key of the config and its entry
\* has no "enabled" key or a truthy one.
Selected(c, name) ==
    /\ name \in DOMAIN c
    /\ "enabled" \in DOMAIN c[name] => c[name]["enabled"] \in {"True", "1"}
\* The selected transform, built from its entry without the "enabled" key.
Built(c, name, cls) ==
    IF Selected(c, name)
    THEN <<[cls |-> cls,
            kwargs |-> [k \in (DOMAIN c[name]) \ {"enabled"} |-> c[name][k]]]>>
    ELSE <<>>

\* C4: get_transforms returns AddInfoDict, then pixel_backdoor if selected, then
\* one to_numpy, then noise and noise_backdoor, in that order, if selected; the
\* "enabled" key is not passed to a constructor and the caller's config is as
\* it was.
C4_TransformOrder ==
    /\ gpc = "returned" =>
          transforms = <<[cls |-> "AddInfoDict", kwargs |-> EmptyDict]>>
                       \o Built(config0, "pixel_backdoor", "CornerPixelToWhite")
                       \o <<[cls |-> "to_numpy", kwargs |-> EmptyDict]>>
                       \o Built(config0, "noise", "GaussianNoise")
                       \o Built(config0, "noise_backdoor", "NoiseBackdoor")
    /\ config = config0

\* C4 witness: a list of four transforms returned for a config that selects
\* pixel_backdoor through a truthy "enabled" key, disables noise with a falsy
\* one and selects noise_backdoor by an entry without the key.
C4_Witness ==
    /\ gpc = "returned"
    /\ Len(transforms) = 4
    /\ "pixel_backdoor" \in DOMAIN config0
    /\ "enabled" \in DOMAIN config0["pixel_backdoor"]
    /\ config0["pixel_backdoor"]["enabled"] = "1"
    /\ "noise" \in DOMAIN config0
    /\ "enabled" \in DOMAIN config0["noise"]
    /\ config0["noise"]["enabled"] = "0"
    /\ "noise_backdoor" \in DOMAIN config0
    /\ "enabled" \notin DOMAIN config0["noise_backdoor"]

\* C5: a dataset built with num_examples = n over m stored examples exposes
\* exactly the first n: it is only ready when n <= m, len() is n, __getitem__
\* returns examples[idx] for 0 <= idx < n and raises IndexError for every other
\* idx, so that no call returns the stored example of a position >= n.
C5_OnlyFirstN ==
    /\ dpc = "ready" => ds_num_examples <= Len(examples)
    /\ dpc = "ValueError" => ds_num_examples > Len(on_disk)
    /\ (dpc = "ready" /\ result # EmptyDict /\ result.op = "len")
          => result.value = ds_num_examples
    /\ (dpc = "ready" /\ result # EmptyDict /\ result.op = "getitem") =>
          IF 0 <= result.idx /\ result.idx < ds_num_examples
          THEN /\ result.outcome = "returned"
               /\ result.value = examples[result.idx + 1]
          ELSE result.outcome = "IndexError"

\* The original pixels of the examples saved, in the order of the file.
OriginalInputs == Concatenate([b \in DOMAIN batches |-> batches[b].inputs])

\* C6: every adversarial pixel attack() keeps or saves lies in [0, 1] and
\* differs from the original pixel by at most eps; fgsm moved the pixel by
\* -eps, 0 or +eps, and the clip did not move it further from the original.
C6_AdvWithinEps ==
    /\ \A b \in DOMAIN adv_examples : \A j \in DOMAIN adv_examples[b] :
          LET a == adv_examples[b][j]
              x == batches[b].inputs[j]
          IN /\ 0 <= a /\ a <= Scale
             /\ Abs(a - x) <= cfg.eps
    /\ fgsm_out # <<>> =>
          \A j \in DOMAIN fgsm_out :
             LET x == batches[Len(batches)].inputs[j]
                 a == adv_examples[Len(adv_examples)][j]
             IN /\ fgsm_out[j] - x \in {0 - cfg.eps, 0, cfg.eps}
                /\ Abs(a - x) <= Abs(fgsm_out[j] - x)
    /\ AdvFile \in written =>
          /\ Len(saved) = Len(OriginalInputs)
          /\ \A k \in DOMAIN saved :
                /\ 0 <= saved[k] /\ saved[k] <= Scale
                /\ Abs(saved[k] - OriginalInputs[k]) <= cfg.eps

\* C6 witness: a saved file for which fgsm left [0, 1] on one pixel (the clip
\* acted) and moved another pixel by eps > 0 inside [0, 1].
C6_Witness ==
    /\ AdvFile \in written
    /\ cfg.eps > 0
    /\ \E j \in DOMAIN fgsm_out : fgsm_out[j] > Scale \/ fgsm_out[j] < 0
    /\ \E k \in DOMAIN saved : Abs(saved[k] - OriginalInputs[k]) = cfg.eps

PastCheck == apc \in {"RuntimeError", "ValueError", "saved", "dumped", "done", "IndexError"}

\* C7: attack() writes adv_examples and adv_examples.json only when no
\* examples existed at entry and the mean accuracy is at most 0.1; with the file
\* there at entry it returns without loading the model, running a batch or
\* writing a file; with a mean accuracy above 0.1 it raises RuntimeError and
\* base_run has none of the three files; a mean accuracy of exactly 0.1 is
\* no failure.
C7_WritesOnlyOnSuccess ==
    /\ AdvFile \in exists0 =>
          /\ apc \in {"entry", "skipped"}
          /\ ~model_loaded /\ i = 0 /\ batches = <<>> /\ adv_examples = <<>>
          /\ written = {} /\ exists = exists0
    /\ (AdvFile \in written \/ JsonFile \in written) =>
          /\ AdvFile \notin exists0
          /\ 10 * mean_new_accuracy[1] <= mean_new_accuracy[2]
    /\ (PastCheck /\ 10 * mean_new_accuracy[1] > mean_new_accuracy[2]) =>
          /\ apc = "RuntimeError"
          /\ written = {}
          /\ exists \cap {AdvFile, JsonFile, PdfFile} = {}
    /\ (PastCheck /\ 10 * mean_new_accuracy[1] = mean_new_accuracy[2]) =>
          /\ apc # "RuntimeError"
          /\ AdvFile \in written

\* C7 witness: the examples were saved by a run whose mean accuracy was
\* exactly 0.1.
C7_Witness ==
    /\ apc = "dumped"
    /\ 10 * mean_new_accuracy[1] = mean_new_accuracy[2]
    /\ written = {AdvFile, JsonFile}

\* The arithmetic mean of a non-empty sequence of fractions.
RECURSIVE FracSum(_)
FracSum(s) ==
    IF s = <<>> THEN <<0, 1>>
    ELSE LET r == FracSum(Tail(s))
         IN <<s[1][1] * r[2] + r[1] * s[1][2], s[1][2] * r[2]>>
IsMeanOf(m, s) == m[1] * FracSum(s)[2] * Len(s) = FracSum(s)[1] * m[2]

\* C8: after k >= 1 batches, mean_original_loss, mean_new_loss and
\* mean_new_accuracy are the arithmetic means of the k per-batch values, each
\* batch weighted equally: the loss on the original inputs, and the loss and
\* the accuracy on the clipped adversarial inputs, against the batch's labels.
C8_RunningMeans ==
    i >= 1 =>
        /\ i = Len(batches) /\ i = Len(adv_examples)
        /\ IsMeanOf(mean_original_loss,
                    [b \in 1..i |-> BatchLoss(params, batches[b].inputs,
                                               batches[b].labels)])
        /\ IsMeanOf(mean_new_loss,
                    [b \in 1..i |-> BatchLoss(params, adv_examples[b],
                                               batches[b].labels)])
        /\ IsMeanOf(mean_new_accuracy,
                    [b \in 1..i |-> BatchAccuracy(params, adv_examples[b],
                                                   batches[b].labels)])

\* C8 witness: two batches of which the last is smaller than the first, with
\* per-batch accuracies that differ.
C8_Witness ==
    /\ i = 2
    /\ Len(batches[1].inputs) = 2
    /\ Len(batches[2].inputs) = 1
    /\ BatchAccuracy(params, adv_examples[1], batches[1].labels)
         # BatchAccuracy(params, adv_examples[2], batches[2].labels)
    /\ mean_new_loss # mean_original_loss

====
